---------------------------- MODULE Spec2Model ----------------------------
(***************************************************************************)
(* OpenEcs: the EntityManager (entity table, archetype blocks, free lists, *)
(* component managers and their pools) and the query iterator.             *)
(*                                                                         *)
(* Conventions of the model                                                *)
(*  - A ComponentMask (std::bitset) is the set of component indexes whose  *)
(*    bit is set; (a & m) == m is m \subseteq a; to_ulong() is the key of  *)
(*    the mask in the accessor map and is kept as the set itself.          *)
(*  - C++ vectors are sequences; C++ index i is element i + 1.             *)
(*  - std::map::operator[] inserts a default value on first use: the map   *)
(*    component_mask_to_index_accessor_ is a total function whose default  *)
(*    is the empty IndexAccessor.                                          *)
(*  - size_t / index_t values are kept as their residue; the one place     *)
(*    where unsigned arithmetic wraps below zero (entities_left-- at 0,    *)
(*    --count_ at 0) keeps the residue -1, i.e. the type's maximum.        *)
(*  - ECS_ASSERT is enforced (the default assert, or the throwing macro    *)
(*    of the unit tests): an operation is called only when its assertions  *)
(*    hold.                                                                *)
(***************************************************************************)
EXTENDS Integers, Sequences, FiniteSets, TLC

(***************************************************************************)
(* Sizes.                                                                  *)
(***************************************************************************)
\* Slots per block.  A build-time macro (64 unless the build defines it);
\* the model is built with a small block so that blocks fill up.
ECS_CACHE_LINE_SIZE == 2

\* Elements per pool chunk; the source defines it as ECS_CACHE_LINE_SIZE.
ECS_DEFAULT_CHUNK_SIZE == ECS_CACHE_LINE_SIZE

\* The largest size and capacity asked of a pool.
MaxPoolSize == 4

\* version_t is uint8_t: versions are counted modulo 2^8.
VersionModulus == 256

\* Number of component types the modelled program registers.
NumComponents == 2

\* Blocks the modelled runs may open.
MaxBlocks == 2

\* Largest argument of create(n).
MaxBulk == 2

\* Destroys in the runs of Spec.
MaxDestroys == 1

\* Largest count() in the runs of Spec.
MaxCount == 2

\* Component values the callers pass to add and set.
NumValues == 2

\* The value of a default-constructed component (add<C>() without arguments).
DefaultValue == 0

\* Objects clear_mask may leave behind at one index of a pool.
MaxLeak == 1

\* Rounds of create and destroy with which the runs of SpecStale begin, and
\* destroys after them.
WrapStart == 255
StaleDestroys == 1

\* Live entities in the runs of SpecUse.
UseLive == 2

\* Live entities and destroys per slot in the runs of SpecWrap.
WrapLive == 1

\* The component registry: the most component types a process may have
\* (64 in Defines.h), the types a run has beyond that number, and the
\* references that fail before a run ends.
ECS_MAX_NUM_OF_COMPONENTS == 4
ExtraTypes == 1
MaxFailed == 2

\* Runs with an UnallocatedEntity: the longest component_headers_, and the
\* entities of the manager.
MaxHeaders == 2
UnallocatedLive == 2

\* Runs that recycle slots: live entities and destroys.
ReuseLive == 3
ReuseDestroys == 2

\* Runs of a SystemManager: system types, and the longest order_.
NumSystems == 3
MaxOrder == 4

\* Runs that walk views: live entities, and destroys in and out of loops.
WalkLive == 3
WalkCreates == 2
WalkDestroys == 2

\* Runs that only create: blocks opened, and entities created.
PlaceBlocks == 3
PlaceCount == 5
WrapDestroys == 256

Components == 0 .. (NumComponents - 1)
ComponentMask == SUBSET Components
Values == 1 .. NumValues
\* The slots of the largest manager any run builds.
SlotBlocks == IF PlaceBlocks > MaxBlocks THEN PlaceBlocks ELSE MaxBlocks
Slots == 0 .. (SlotBlocks * ECS_CACHE_LINE_SIZE - 1)

Last(s) == s[Len(s)]
PopBack(s) == SubSeq(s, 1, Len(s) - 1)
Range(s) == {s[i] : i \in 1 .. Len(s)}

\* std::vector::resize(n, fill): truncates, or appends copies of fill.
Resize(v, n, fill) ==
  [i \in 1 .. n |-> IF i <= Len(v) THEN v[i] ELSE fill]

(***************************************************************************)
(* State.                                                                  *)
(***************************************************************************)
VARIABLES
  em,      \* the EntityManager
  gh,      \* history of the run: who was handed which slot
  last,    \* the last call and what it returned
  fault,   \* a call did not return
  statics, \* the function-local statics of the component registry
  walk,    \* the range-for loop over a view that is under way
  systems, \* the SystemManager, and the statics of system_index
  unallocated  \* the UnallocatedEntity the caller holds

vars == <<em, gh, last, fault, statics, walk, systems, unallocated>>

\* What a call on the manager or on an entity leaves alone.
outside == <<statics, walk, systems, unallocated>>

\* struct IndexAccessor
IndexAccessor == [block_index |-> <<>>, free_list |-> <<>>]

\* A ComponentManager<C> that was not created yet (nullptr in
\* component_managers_), and the fields of the BasePool it owns once created.
\* obj[i] counts the C objects constructed and not destructed at index i,
\* val[i] is the value of the object at index i.  chunks_ lists the chunk
\* pointers: the k-th array the pool got from new char[] is the pointer k.
NoManager ==
  [created |-> FALSE, size_ |-> 0, capacity_ |-> 0, chunks_ |-> <<>>,
   obj |-> [i \in Slots |-> 0],
   val |-> [i \in Slots |-> DefaultValue]]

\* Id(index, version)
Id(index, version) == [index |-> index, version |-> version]

EntityManagerInit ==
  [component_managers_ |-> [c \in Components |-> NoManager],
   component_masks_ |-> <<>>,
   entity_versions_ |-> <<>>,
   next_free_indexes_ |-> <<>>,
   index_to_component_mask |-> <<>>,
   component_mask_to_index_accessor_ |-> [m \in ComponentMask |-> IndexAccessor],
   block_count_ |-> 0,
   count_ |-> 0]


(***************************************************************************)
(* EntityManager: handles.                                                 *)
(***************************************************************************)
\* EntityManager::get_entity(index_t): the handle of the row at index, at
\* the row's current version.
get_entity(w, index) == Id(index, w.entity_versions_[index + 1])

\* is_valid without the comparison of versions.
\* EntityManager::get_entity(Id): the handle of this manager with the Id given.
get_entity_of_id(w, id) == id

\* The assertion of EntityManager::operator[](Id): id == get_entity(id).id()
subscript_asserts(w, id) == id = get_entity_of_id(w, id)

is_valid_index_only(w, id) == id.index < Len(w.entity_versions_)

\* EntityManager::is_valid
is_valid(w, id) ==
  /\ id.index < Len(w.entity_versions_)
  /\ id.version = w.entity_versions_[id.index + 1]

\* EntityManager::mask(index_t)
mask(w, index) == w.component_masks_[index + 1]

\* EntityManager::has_component(entity, component_mask)
has_component(w, id, component_mask) ==
  component_mask \subseteq mask(w, id.index)

(***************************************************************************)
(* EntityManager: placing new entities.                                    *)
(***************************************************************************)
\* EntityManager::create_new_block.  The caller increments block_count_.
create_new_block(w, mask_as_ulong, next_free_index) ==
  [w EXCEPT
     !.component_mask_to_index_accessor_[mask_as_ulong].block_index =
        Append(@, w.block_count_),
     !.next_free_indexes_ =
        [Resize(@, w.block_count_ + 1, 0) EXCEPT ![w.block_count_ + 1] = next_free_index],
     !.index_to_component_mask =
        [Resize(@, w.block_count_ + 1, {}) EXCEPT ![w.block_count_ + 1] = mask_as_ulong]]

\* find_new_entity_index without the look at the tail block of the mask.
find_new_entity_index_new_block(w, mask_as_ulong) ==
  [w |-> [create_new_block(w, mask_as_ulong, 1) EXCEPT !.block_count_ = @ + 1],
   index |-> w.block_count_ * ECS_CACHE_LINE_SIZE]

\* EntityManager::find_new_entity_index: the free list of the mask first,
\* then the tail block of the mask, then a new block.
find_new_entity_index(w, mask_as_ulong) ==
  LET index_accessor == w.component_mask_to_index_accessor_[mask_as_ulong]
  IN IF index_accessor.free_list # <<>>
     THEN [w |-> [w EXCEPT
                    !.component_mask_to_index_accessor_[mask_as_ulong].free_list =
                       PopBack(@)],
           index |-> Last(index_accessor.free_list)]
     ELSE IF /\ index_accessor.block_index # <<>>
             /\ ECS_CACHE_LINE_SIZE >
                  w.next_free_indexes_[Last(index_accessor.block_index) + 1]
     THEN LET block_index == Last(index_accessor.block_index)
              current == w.next_free_indexes_[block_index + 1]
          IN [w |-> [w EXCEPT !.next_free_indexes_[block_index + 1] = @ + 1],
              index |-> current + ECS_CACHE_LINE_SIZE * block_index]
     ELSE [w |-> [create_new_block(w, mask_as_ulong, 1)
                    EXCEPT !.block_count_ = @ + 1],
           index |-> w.block_count_ * ECS_CACHE_LINE_SIZE]

\* EntityManager::create_with_mask(mask): one entity.
create_with_mask(w, mask_) ==
  LET f == find_new_entity_index([w EXCEPT !.count_ = @ + 1], mask_)
      slots_required == f.index + 1
      w2 == IF Len(f.w.entity_versions_) < slots_required
            THEN [f.w EXCEPT
                    !.entity_versions_ = Resize(@, slots_required, 0),
                    !.component_masks_ = Resize(@, slots_required, {})]
            ELSE f.w
  IN [w |-> w2, entity |-> get_entity(w2, f.index)]

\* The first loop of create_with_mask(mask, n):
\*   while (!free_list.empty() && entities_left--) { push_back; pop_back; }
\* entities_left-- is evaluated only when the list is not empty, and
\* decrements also when it reads 0: the loop then ends with the size_t
\* wrapped around to its maximum, kept here as -1.
RECURSIVE DrainFreeList(_, _, _, _)
DrainFreeList(w, free_list, entities_left, new_entities) ==
  IF free_list = <<>>
  THEN [free_list |-> free_list, entities_left |-> entities_left,
        new_entities |-> new_entities]
  ELSE IF entities_left = 0
  THEN [free_list |-> free_list, entities_left |-> entities_left - 1,
        new_entities |-> new_entities]
  ELSE DrainFreeList(w, PopBack(free_list), entities_left - 1,
                     Append(new_entities, get_entity(w, Last(free_list))))

\* The second loop of create_with_mask(mask, n):
\*   while (entities_left) {
\*     for (; current < ECS_CACHE_LINE_SIZE && entities_left; ++current) ...
\*     if (entities_left) { new block; ++block_count_; current = 0; } }
\* block_index and current are locals: next_free_indexes_ is only written by
\* create_new_block, which sets the entry of a new block to 0.
RECURSIVE FillBlocks(_, _, _, _, _, _)
FillBlocks(w, mask_as_ulong, block_index, current, entities_left, new_entities) ==
  IF entities_left = 0
  THEN [w |-> w, new_entities |-> new_entities]
  ELSE IF current < ECS_CACHE_LINE_SIZE
  THEN FillBlocks(w, mask_as_ulong, block_index, current + 1, entities_left - 1,
                  Append(new_entities,
                         get_entity(w, current + ECS_CACHE_LINE_SIZE * block_index)))
  ELSE FillBlocks([create_new_block(w, mask_as_ulong, 0)
                     EXCEPT !.block_count_ = @ + 1],
                  mask_as_ulong, w.block_count_, 0, entities_left, new_entities)

\* EntityManager::create_with_mask(mask, num_of_entities): many entities.
\* When the first loop leaves entities_left at the maximum of size_t the
\* second loop cannot finish (it would append 2^64 - 1 handles, reading
\* entity_versions_ past its end on the way): the call does not return, and
\* the result is marked fault with the manager as the call found it.
create_with_mask_n(w, mask_, num_of_entities) ==
  LET index_accessor == w.component_mask_to_index_accessor_[mask_]
      d == DrainFreeList(w, index_accessor.free_list, num_of_entities, <<>>)
      has_block == index_accessor.block_index # <<>>
      block_index == IF has_block THEN Last(index_accessor.block_index) ELSE 0
      current == IF has_block THEN w.next_free_indexes_[block_index + 1]
                 ELSE ECS_CACHE_LINE_SIZE
      slots_required ==
        IF has_block
        THEN w.block_count_ * ECS_CACHE_LINE_SIZE + current + d.entities_left
        ELSE w.block_count_ * ECS_CACHE_LINE_SIZE + d.entities_left
      w1 == [w EXCEPT
               !.component_mask_to_index_accessor_[mask_].free_list = d.free_list,
               !.entity_versions_ = Resize(@, slots_required, 0),
               !.component_masks_ = Resize(@, slots_required, {})]
      f == FillBlocks(w1, mask_, block_index, current, d.entities_left,
                      d.new_entities)
  IN IF d.entities_left < 0
     THEN [w |-> w, entities |-> <<>>, fault |-> TRUE]
     ELSE [w |-> [f.w EXCEPT !.count_ = @ + num_of_entities],
           entities |-> f.new_entities, fault |-> FALSE]

(***************************************************************************)
(* Pool and ComponentManager.                                              *)
(***************************************************************************)
\* Growth as of one contiguous array: the storage is allocated anew to hold
\* min_capacity elements and more, every chunk pointer changes.
ensure_min_capacity_reallocates(pool, min_capacity) ==
  IF min_capacity >= pool.capacity_
  THEN LET n == (min_capacity \div ECS_DEFAULT_CHUNK_SIZE) + 1
       IN [pool EXCEPT !.chunks_ = [k \in 1 .. n |-> Len(pool.chunks_) + k],
                       !.capacity_ = n * ECS_DEFAULT_CHUNK_SIZE]
  ELSE pool

\* BasePool::ensure_min_capacity: while (min_capacity >= capacity_) add a chunk.
RECURSIVE ensure_min_capacity(_, _)
ensure_min_capacity(pool, min_capacity) ==
  IF min_capacity >= pool.capacity_
  THEN ensure_min_capacity(
         [pool EXCEPT !.chunks_ = Append(@, Len(@) + 1),
                      !.capacity_ = @ + ECS_DEFAULT_CHUNK_SIZE],
         min_capacity)
  ELSE pool

\* BasePool::ensure_min_size
ensure_min_size(pool, size) ==
  IF size >= pool.size_
  THEN [(IF size >= pool.capacity_ THEN ensure_min_capacity(pool, size) ELSE pool)
          EXCEPT !.size_ = size]
  ELSE pool

\* Pool<T>::get_ptr, after its assertion index < capacity_:
\* chunks_[index / chunk_size_] + (index % chunk_size_) * element_size_,
\* as the chunk pointer and the offset in the chunk, in elements.
get_ptr(pool, index) ==
  [chunk |-> pool.chunks_[(index \div ECS_DEFAULT_CHUNK_SIZE) + 1],
   offset |-> index % ECS_DEFAULT_CHUNK_SIZE]

\* EntityManager::get_component_manager<C>: creates the manager on first use.
get_component_manager(w, c) ==
  [w EXCEPT !.component_managers_[c].created = TRUE]

\* ComponentManager<C>::create: grow the pool to index + 1, construct in place
\* from the arguments.
ComponentManager_create(w, c, index, v) ==
  [w EXCEPT !.component_managers_[c] =
     [ensure_min_size(@, index + 1) EXCEPT !.obj[index] = @ + 1,
                                           !.val[index] = v]]

\* Pool<T>::destroy asserts index < size_ before it runs the destructor.
Pool_destroy_asserts(w, c, index) == index < w.component_managers_[c].size_

\* remove that destructs the object and leaves the bit of C set.
ComponentManager_remove_keeps_bit(w, c, index) ==
  [w EXCEPT !.component_managers_[c].obj[index] = @ - 1,
            !.component_managers_[c].val[index] = DefaultValue]

\* ComponentManager<C>::remove: destruct the object, reset the bit of C in
\* the manager's mask of index.  The storage of a destructed object holds no
\* value any caller can read: val goes back to DefaultValue.
ComponentManager_remove(w, c, index) ==
  [w EXCEPT !.component_managers_[c].obj[index] = @ - 1,
            !.component_managers_[c].val[index] = DefaultValue,
            !.component_masks_[index + 1] = @ \ {c}]

(***************************************************************************)
(* EntityManager: components of an entity.                                 *)
(***************************************************************************)
\* create_component that constructs the object and leaves the mask alone.
create_component_no_bit(w, id, c, v) ==
  ComponentManager_create(get_component_manager(w, c), c, id.index, v)

\* EntityManager::create_component (Entity::add)
create_component(w, id, c, v) ==
  LET w1 == ComponentManager_create(get_component_manager(w, c), c, id.index, v)
  IN [w1 EXCEPT !.component_masks_[id.index + 1] = @ \cup {c}]

\* EntityManager::remove_component (Entity::remove)
\* remove_component that also bumps the version of the slot.
remove_component_bumps_version(w, id, c) ==
  [ComponentManager_remove(get_component_manager(w, c), c, id.index)
     EXCEPT !.entity_versions_[id.index + 1] = (@ + 1) % VersionModulus]

remove_component(w, id, c) ==
  ComponentManager_remove(get_component_manager(w, c), c, id.index)

\* remove_all_components that stops after the first manager.
remove_all_components_from_one(w, id, c) ==
  IF w.component_managers_[c].created /\ has_component(w, id, {c})
  THEN ComponentManager_remove(w, c, id.index)
  ELSE w

\* EntityManager::remove_all_components: every created manager whose bit is
\* set in the entity's mask removes its object, in the order of
\* component_managers_.
RECURSIVE remove_all_components_from(_, _, _)
remove_all_components_from(w, id, c) ==
  IF c >= NumComponents THEN w
  ELSE remove_all_components_from(
         IF w.component_managers_[c].created /\ has_component(w, id, {c})
         THEN ComponentManager_remove(w, c, id.index)
         ELSE w,
         id, c + 1)

remove_all_components(w, id) == remove_all_components_from(w, id, 0)

\* remove_all_components up to the first manager whose Pool<T>::destroy
\* fails its assertion.
RECURSIVE remove_all_components_until_assert(_, _, _)
remove_all_components_until_assert(w, id, c) ==
  IF c >= NumComponents THEN w
  ELSE IF w.component_managers_[c].created /\ has_component(w, id, {c})
  THEN IF Pool_destroy_asserts(w, c, id.index)
       THEN remove_all_components_until_assert(
              ComponentManager_remove(w, c, id.index), id, c + 1)
       ELSE w
  ELSE remove_all_components_until_assert(w, id, c + 1)

\* remove_all_components without ECS_ASSERT_VALID_ENTITY.
remove_all_components_asserts_pool_only(w, id) ==
  \A c \in Components :
    (w.component_managers_[c].created /\ has_component(w, id, {c}))
       => Pool_destroy_asserts(w, c, id.index)

\* The assertions remove_all_components passes through.
remove_all_components_asserts(w, id) ==
  /\ is_valid(w, id)
  /\ \A c \in Components :
       (w.component_managers_[c].created /\ has_component(w, id, {c}))
          => Pool_destroy_asserts(w, c, id.index)

\* set_component that constructs a second object over the one in place.
set_component_constructs(w, id, c, v) == create_component(w, id, c, v)

\* EntityManager::set_component (Entity::set): assignment to the object in
\* place when the component is there (the temporary is constructed and
\* destructed within the call), create_component otherwise.
set_component(w, id, c, v) ==
  IF has_component(w, id, {c})
  THEN [w EXCEPT !.component_managers_[c].val[id.index] = v]
  ELSE create_component(w, id, c, v)

\* clear_mask that removes the components as remove_everything does.
clear_mask_destructs(w, id) == remove_all_components(w, id)

\* EntityManager::clear_mask (Entity::clear_mask): the mask is reset, the
\* objects stay in their pools.
clear_mask(w, id) == [w EXCEPT !.component_masks_[id.index + 1] = {}]

\* EntityManager::get_component (Entity::get): the object at the entity's
\* index in the pool of C.
get_component(w, id, c) == w.component_managers_[c].val[id.index]

\* create_component whose second assertion is compiled out.
create_component_asserts_valid_only(w, id, c) == is_valid(w, id)

\* The assertions of create_component, remove_component and get_component.
create_component_asserts(w, id, c) ==
  is_valid(w, id) /\ ~ has_component(w, id, {c})

remove_component_asserts(w, id, c) ==
  is_valid(w, id) /\ has_component(w, id, {c})

get_component_asserts(w, id, c) ==
  is_valid(w, id) /\ has_component(w, id, {c})

\* EntityAlias::init, called by create_with on the new entity: add<C> for
\* each component of the alias, in order.
RECURSIVE init_components(_, _, _, _)
init_components(w, id, mask_, c) ==
  IF c >= NumComponents THEN w
  ELSE init_components(IF c \in mask_ THEN create_component(w, id, c, DefaultValue)
                                        ELSE w,
                       id, mask_, c + 1)

\* EntityManager::create_with<Components...>
create_with(w, mask_) ==
  LET r == create_with_mask(w, mask_)
  IN [w |-> init_components(r.w, r.entity, mask_, 0), entity |-> r.entity]

\* destroy with a version that does not wrap at 8 bits.
destroy_wide_version(w, id) ==
  LET index == id.index
      w1 == remove_all_components(w, id)
      mask_as_ulong == w1.index_to_component_mask[(index \div ECS_CACHE_LINE_SIZE) + 1]
  IN [w1 EXCEPT
        !.entity_versions_[index + 1] = @ + 1,
        !.component_mask_to_index_accessor_[mask_as_ulong].free_list =
           Append(@, index),
        !.count_ = @ - 1]

\* destroy that leaves the version of the slot as it was.
destroy_keeps_version(w, id) ==
  LET index == id.index
      w1 == remove_all_components(w, id)
      mask_as_ulong == w1.index_to_component_mask[(index \div ECS_CACHE_LINE_SIZE) + 1]
  IN [w1 EXCEPT
        !.component_mask_to_index_accessor_[mask_as_ulong].free_list =
           Append(@, index),
        !.count_ = @ - 1]

\* EntityManager::destroy
destroy(w, id) ==
  LET index == id.index
      w1 == remove_all_components(w, id)
      mask_as_ulong == w1.index_to_component_mask[(index \div ECS_CACHE_LINE_SIZE) + 1]
  IN [w1 EXCEPT
        !.entity_versions_[index + 1] = (@ + 1) % VersionModulus,
        !.component_mask_to_index_accessor_[mask_as_ulong].free_list =
           Append(@, index),
        !.count_ = @ - 1]

(***************************************************************************)
(* Iterator and View.                                                      *)
(***************************************************************************)
\* Iterator<T>::find_next
RECURSIVE find_next(_, _)
find_next(w, it) ==
  IF /\ it.cursor_ < it.size_
     /\ it.cursor_ < Len(w.component_masks_)
     /\ ~ (it.mask_ \subseteq w.component_masks_[it.cursor_ + 1])
  THEN find_next(w, [it EXCEPT !.cursor_ = @ + 1])
  ELSE it

\* find_next reads component_masks_[cursor_] for every cursor_ < size_ it
\* comes by, and size_ is the length of the tables when the iterator was
\* made: a read at or behind the end of a table that has become shorter is
\* outside the vector, and find_next above stops there.
find_next_reads_outside(w, it) ==
  LET stop == find_next(w, it)
  IN stop.cursor_ < stop.size_ /\ stop.cursor_ >= Len(w.component_masks_)

\* An iterator whose begin starts the search at row 1.
Iterator_from_one(w, mask_, begin) ==
  LET size == Len(w.entity_versions_)
  IN find_next(w, [mask_ |-> mask_,
                   cursor_ |-> IF begin /\ size > 0 THEN 1 ELSE size,
                   size_ |-> size])

\* Iterator<T>::Iterator(manager, mask, begin)
Iterator(w, mask_, begin) ==
  LET size == Len(w.entity_versions_)
  IN find_next(w, [mask_ |-> mask_,
                   cursor_ |-> IF begin THEN 0 ELSE size,
                   size_ |-> size])

\* The ComponentMask a cursor converts to: std::bitset<ECS_MAX_NUM_OF_COMPONENTS>
\* made from an integer has the bits of its binary digits.
RECURSIVE pow2(_)
pow2(b) == IF b = 0 THEN 1 ELSE 2 * pow2(b - 1)

mask_of_integer(value) ==
  {b \in 0 .. (ECS_MAX_NUM_OF_COMPONENTS - 1) : (value \div pow2(b)) % 2 = 1}

\* Iterator<T>::Iterator(const Iterator &it) : Iterator(it.manager_, it.cursor_)
\* delegates to the constructor (manager, mask, begin = true) with the cursor
\* in the place of the mask.
Iterator_copy(w, it) == Iterator(w, mask_of_integer(it.cursor_), TRUE)

\* Iterator<T>::operator++
Iterator_increment(w, it) == find_next(w, [it EXCEPT !.cursor_ = @ + 1])

\* The loop of View<T>::count and with_t::for_each over a manager the body
\* does not change:
\*   for (it = view.begin(), end = view.end(); it != end; ++it) body(it.index())
\* operator!= compares the cursors.  The result is the sequence of indexes
\* the body saw.
RECURSIVE for_each(_, _, _, _)
for_each(w, it, end, yielded) ==
  IF it.cursor_ # end.cursor_
  THEN for_each(w, Iterator_increment(w, it), end, Append(yielded, it.cursor_))
  ELSE yielded

\* EntityManager::with<Components...>() walked from begin() to end().
View_walk(w, mask_) ==
  for_each(w, Iterator(w, mask_, TRUE), Iterator(w, mask_, FALSE), <<>>)

(***************************************************************************)
(* The component registry of Utils.h: component_counter() holds a static   *)
(* counter, and component_index<C>() holds one static index per type C,    *)
(* initialized by inc_component_counter() the first time control passes    *)
(* through its declaration.  When the assertion in inc_component_counter   *)
(* fails the counter has been incremented already and the static of C      *)
(* stays uninitialized.                                                    *)
(***************************************************************************)
Types == 0 .. (ECS_MAX_NUM_OF_COMPONENTS + ExtraTypes - 1)
NoType == 0 - 1
NotInitialized == 0 - 1

StaticsInit ==
  [component_counter |-> 0, index |-> [t \in Types |-> NotInitialized]]

\* inc_component_counter(): ok is the value of the asserted condition.
inc_component_counter(s) ==
  [s |-> [s EXCEPT !.component_counter = @ + 1],
   index |-> s.component_counter,
   ok |-> s.component_counter < ECS_MAX_NUM_OF_COMPONENTS]

\* component_index<C>() with an index that is not static: every call takes
\* a new value of the counter.
component_index_not_static(s, t) ==
  LET r == inc_component_counter(s)
  IN IF r.ok THEN [r EXCEPT !.s.index[t] = r.index] ELSE r

\* component_index<C>()
component_index(s, t) ==
  IF s.index[t] # NotInitialized
  THEN [s |-> s, index |-> s.index[t], ok |-> TRUE]
  ELSE LET r == inc_component_counter(s)
       IN IF r.ok THEN [r EXCEPT !.s.index[t] = r.index] ELSE r

\* The statics after the first references to the types t, t + 1, .. n - 1.
RECURSIVE Referenced(_, _, _)
Referenced(s, t, n) ==
  IF t >= n THEN s ELSE Referenced(component_index(s, t).s, t + 1, n)

(***************************************************************************)
(* SystemManager.  systems_ is a vector of System pointers indexed by      *)
(* system_index<S>(), a static per system type taken from a static         *)
(* counter at the first reference; order_ is the vector of the indexes in  *)
(* the order of the adds.  The vector systems_ is kept as its cells and    *)
(* its size: resize to a smaller size leaves the cells behind the new end  *)
(* as they were, and resize to a larger size fills the new cells with      *)
(* nullptr.  A cell holds the type of the system it points to.             *)
(* registered is not in the code: it lists the systems added and not       *)
(* removed since, in the order of their adds.                              *)
(***************************************************************************)
SystemTypes == 0 .. (NumSystems - 1)
nullptr == 0 - 1

SystemManagerInit ==
  [cells |-> [i \in SystemTypes |-> nullptr], size |-> 0, order_ |-> <<>>,
   system_counter |-> 0, index |-> [S \in SystemTypes |-> NotInitialized],
   registered |-> <<>>]

\* system_index<S>(): static size_t index = system_counter()++;
system_index(sm, S) ==
  IF sm.index[S] # NotInitialized THEN sm
  ELSE [sm EXCEPT !.index[S] = sm.system_counter, !.system_counter = @ + 1]

\* SystemManager::exists<S>(), on a manager that knows the index of S
exists(sm, S) ==
  sm.size > sm.index[S] /\ sm.cells[sm.index[S]] # nullptr

\* systems_.resize(n)
systems_resize(sm, n) ==
  [sm EXCEPT !.size = n,
             !.cells = [i \in SystemTypes |->
                          IF i >= sm.size /\ i < n THEN nullptr ELSE @[i]]]

\* SystemManager::add<S>(), after its assertion
SystemManager_add(sm, S) ==
  LET index == sm.index[S]
  IN [systems_resize(sm, index + 1) EXCEPT
        !.cells[index] = S,
        !.order_ = Append(@, index),
        !.registered = Append(@, S)]

\* The sequence s without its element at position i (counted from 0).
erase(s, i) == SubSeq(s, 1, i) \o SubSeq(s, i + 2, Len(s))

\* The loop of SystemManager::remove<S>():
\*   for (auto it = order_.begin(); it != order_.end(); ++it)
\*     if (*it == index) order_.erase(it);
\* it is the position of the iterator.  erase moves the elements behind it
\* one position down and the iterator stays where it is (a pointer into
\* the vector), so the ++it that follows steps over one element; after the
\* erase of the last element the iterator is at end() and ++it takes it
\* past end(): it != end() stays true for ever and the loop reads behind
\* the vector until the process dies.  fault tells that.
RECURSIVE remove_loop(_, _, _)
remove_loop(order_, it, index) ==
  IF it = Len(order_) THEN [order_ |-> order_, fault |-> FALSE]
  ELSE IF it > Len(order_) THEN [order_ |-> order_, fault |-> TRUE]
  ELSE IF order_[it + 1] = index
  THEN remove_loop(erase(order_, it), it + 1, index)
  ELSE remove_loop(order_, it + 1, index)

\* SystemManager::remove<S>(), after its assertion
SystemManager_remove(sm, S) ==
  LET index == sm.index[S]
      r == remove_loop(sm.order_, 0, index)
  IN [sm |-> [sm EXCEPT !.cells[index] = nullptr,
                        !.order_ = r.order_,
                        !.registered = SelectSeq(@, LAMBDA T : T # S)],
      fault |-> r.fault]

\* SystemManager::update: for (auto index : order_) systems_[index]->update(time);
\* called lists the systems whose update ran.  systems_[index] with index
\* behind the end of systems_ is undefined: it reads the cell left behind
\* (stale), or the process dies; a null pointer ends the process.
RECURSIVE update_from(_, _, _, _)
update_from(sm, i, stale, called) ==
  IF i > Len(sm.order_) THEN [called |-> called, fault |-> FALSE]
  ELSE LET index == sm.order_[i]
       IN IF (index >= sm.size /\ ~ stale) \/ sm.cells[index] = nullptr
          THEN [called |-> called, fault |-> TRUE]
          ELSE update_from(sm, i + 1, stale, Append(called, sm.cells[index]))

SystemManager_update(sm, stale) == update_from(sm, 1, stale, <<>>)

(***************************************************************************)
(* UnallocatedEntity.  in_scope tells that the caller holds one; manager_  *)
(* is TRUE for a pointer to the manager and FALSE for nullptr              *)
(* (is_allocated() is manager_ == nullptr).  component_headers_ lists the  *)
(* component indexes in the order of the adds and component_data holds one *)
(* cell per header (all components have one size here): the value of the   *)
(* object in the cell and the number of objects alive in it.               *)
(***************************************************************************)
NoUnallocatedEntity ==
  [in_scope |-> FALSE, manager_ |-> FALSE, entity_ |-> Id(0 - 1, 0),
   component_data |-> <<>>, component_headers_ |-> <<>>, mask_ |-> {}]

\* UnallocatedEntity::UnallocatedEntity(manager)
UnallocatedEntity_new ==
  [NoUnallocatedEntity EXCEPT !.in_scope = TRUE, !.manager_ = TRUE]

\* UnallocatedEntity::is_allocated
is_allocated(u) == ~ u.manager_

\* The position of the first header of component c, 0 when there is none:
\* the loops of get<C>() and remove<C>() stop at the first match.
RECURSIVE first_header(_, _, _)
first_header(headers, c, i) ==
  IF i > Len(headers) THEN 0
  ELSE IF headers[i] = c THEN i
  ELSE first_header(headers, c, i + 1)

\* UnallocatedEntity::add<C>(args) before allocation, after its assertions:
\* the new cell lies behind the cells of all headers.
UnallocatedEntity_add(u, c, v) ==
  LET index == Len(u.component_headers_)
  IN [u EXCEPT
        !.mask_ = @ \cup {c},
        !.component_headers_ = Append(@, c),
        !.component_data =
           Append(Resize(@, index, [val |-> DefaultValue, obj |-> 0]),
                  [val |-> v, obj |-> 1])]

\* UnallocatedEntity::remove<C>() before allocation: the destructor runs on
\* the cell of the first header of C, the header stays.  When that cell holds
\* no object any more (C was removed before) the call leaves it so.
UnallocatedEntity_remove(u, c) ==
  LET i == first_header(u.component_headers_, c, 1)
  IN [u EXCEPT
        !.component_data =
           IF i = 0 THEN @
           ELSE [@ EXCEPT ![i] = [val |-> DefaultValue, obj |-> 0]],
        !.mask_ = @ \ {c}]

\* UnallocatedEntity::remove_everything() before allocation
UnallocatedEntity_remove_everything(u) ==
  [u EXCEPT !.component_headers_ = <<>>, !.mask_ = {}]

\* ComponentManager<C>::ensure_min_size(size)
ComponentManager_ensure_min_size(w, c, size) ==
  [w EXCEPT !.component_managers_[c] = ensure_min_size(@, size)]

\* std::memcpy(componentManager.get_void_ptr(index), &component_data[offset], size):
\* the bytes of the cell, and with them the object alive in it, are at
\* index in the pool of c afterwards.
ComponentManager_memcpy(w, c, index, cell) ==
  [w EXCEPT !.component_managers_[c].val[index] = cell.val,
            !.component_managers_[c].obj[index] =
               @ + (IF cell.obj > 0 THEN 1 ELSE 0)]

\* The loop of allocate over component_headers_, from header i on.
RECURSIVE copy_components(_, _, _, _)
copy_components(w, u, index, i) ==
  IF i > Len(u.component_headers_) THEN w
  ELSE LET c == u.component_headers_[i]
       IN copy_components(
            ComponentManager_memcpy(ComponentManager_ensure_min_size(w, c, index),
                                    c, index, u.component_data[i]),
            u, index, i + 1)

\* allocate that asks for the slot before it looks at the components.
UnallocatedEntity_allocate_empty_mask(w, u) ==
  LET r == create_with_mask(w, {})
      index == r.entity.index
      w1 == IF Len(u.component_headers_) > 0
            THEN copy_components(
                   [r.w EXCEPT !.component_masks_[index + 1] = @ \cup u.mask_],
                   u, index, 1)
            ELSE r.w
  IN [w |-> w1, u |-> [u EXCEPT !.entity_ = r.entity, !.manager_ = FALSE]]

\* UnallocatedEntity::allocate() of an entity that is not allocated
UnallocatedEntity_allocate(w, u) ==
  LET r == create_with_mask(w, u.mask_)
      index == r.entity.index
      w1 == IF Len(u.component_headers_) > 0
            THEN copy_components(
                   [r.w EXCEPT !.component_masks_[index + 1] = @ \cup u.mask_],
                   u, index, 1)
            ELSE r.w
  IN [w |-> w1, u |-> [u EXCEPT !.entity_ = r.entity, !.manager_ = FALSE]]

(***************************************************************************)
(* The program around the manager: it keeps the handles the creates        *)
(* returned and calls the manager through them.                            *)
(***************************************************************************)
NoId == Id(0 - 1, 0)

HistoryInit ==
  [handles |-> {},
   occupants |-> [s \in Slots |-> 0],
   destroyed |-> [s \in Slots |-> 0],
   last_destroyed |-> [s \in Slots |-> NoId],
   made |-> [m \in ComponentMask |-> <<>>]]

\* A create returned the handles ids: each is remembered with the number of
\* destroys its slot had seen (born), and occupies its slot.
RECURSIVE Issue(_, _)
Issue(g, ids) ==
  IF ids = <<>> THEN g
  ELSE LET id == Head(ids)
       IN Issue([g EXCEPT
                   !.handles = @ \cup {[id |-> id, born |-> g.destroyed[id.index]]},
                   !.occupants[id.index] = @ + 1],
                Tail(ids))

\* The number of destroys so far.
RECURSIVE DestroysUpTo(_, _)
DestroysUpTo(g, s) ==
  IF s < 0 THEN 0 ELSE g.destroyed[s] + DestroysUpTo(g, s - 1)

Destroys(g) == DestroysUpTo(g, SlotBlocks * ECS_CACHE_LINE_SIZE - 1)

\* The slot of id was destroyed.
Retire(g, id) ==
  [g EXCEPT !.occupants[id.index] = 0,
            !.destroyed[id.index] = @ + 1,
            !.last_destroyed[id.index] = id]

Call(op, n, ret) ==
  [op |-> op, n |-> n, ret |-> ret, sequential |-> <<>>, count_before |-> em.count_,
   mask_ |-> {}, yielded |-> <<>>, value |-> DefaultValue, type |-> NoType]

\* n consecutive single creates from w: the handles they return.
RECURSIVE create_repeated(_, _, _)
create_repeated(w, mask_, n) ==
  IF n = 0 THEN <<>>
  ELSE LET r == create_with_mask(w, mask_)
       IN <<r.entity>> \o create_repeated(r.w, mask_, n - 1)

\* No range-for loop is under way.
NoWalk ==
  [active |-> FALSE, it |-> Iterator(EntityManagerInit, {}, FALSE),
   end |-> Iterator(EntityManagerInit, {}, FALSE), yielded |-> <<>>,
   destroyed |-> <<>>, began |-> {}, count_begin |-> 0]

\* A new manager in a process whose statics are s.
InitWith(s) ==
  /\ em = EntityManagerInit
  /\ gh = HistoryInit
  /\ last = [op |-> "none", n |-> 0, ret |-> <<>>, sequential |-> <<>>,
             count_before |-> 0, mask_ |-> {}, yielded |-> <<>>,
             value |-> DefaultValue, type |-> NoType]
  /\ fault = FALSE
  /\ statics = s
  /\ walk = NoWalk
  /\ systems = SystemManagerInit
  /\ unallocated = NoUnallocatedEntity

\* The program has referred to its component types in the order of their
\* indexes: component c of the model is the type that got index c.
Init == InitWith(Referenced(StaticsInit, 0, NumComponents))

\* A process that has not referred to any component type.
InitRegistry == InitWith(StaticsInit)

\* Entity e = entities.create();  (the UnallocatedEntity is converted at
\* once, with no component added: allocate() calls create_with_mask(0))
CreateIn(blocks) ==
  /\ ~ fault
  /\ LET r == create_with_mask(em, {})
     IN /\ r.w.block_count_ <= blocks
        /\ em' = r.w
        /\ gh' = [Issue(gh, <<r.entity>>)
                   EXCEPT !.made[{}] = Append(@, r.entity.index)]
        /\ last' = Call("create", 1, <<r.entity>>)
  /\ UNCHANGED fault
  /\ UNCHANGED outside

Create == CreateIn(MaxBlocks)

\* entities.create(n)
CreateNIn(blocks, n) ==
  /\ ~ fault
  /\ LET r == create_with_mask_n(em, {}, n)
     IN /\ r.w.block_count_ <= blocks
        /\ em' = r.w
        /\ gh' = [Issue(gh, r.entities)
                   EXCEPT !.made[{}] =
                            @ \o [i \in 1 .. Len(r.entities) |-> r.entities[i].index]]
        /\ last' = [Call("create_n", n, r.entities)
                      EXCEPT !.sequential = create_repeated(em, {}, n)]
        /\ fault' = r.fault
  /\ UNCHANGED outside

CreateN(n) == CreateNIn(MaxBlocks, n)

\* entities.create_with<Components...>()
CreateWithIn(blocks, mask_) ==
  /\ ~ fault
  /\ LET r == create_with(em, mask_)
     IN /\ r.w.block_count_ <= blocks
        /\ em' = r.w
        /\ gh' = [Issue(gh, <<r.entity>>)
                   EXCEPT !.made[mask_] = Append(@, r.entity.index)]
        /\ last' = [Call("create_with", 1, <<r.entity>>) EXCEPT !.mask_ = mask_]
  /\ UNCHANGED fault
  /\ UNCHANGED outside

CreateWith(mask_) == CreateWithIn(MaxBlocks, mask_)

\* destroy that pushes the slot on the free list of the mask the entity has
\* when it is destroyed.
Destroy_current_mask(h) ==
  /\ ~ fault
  /\ remove_all_components_asserts(em, h.id)
  /\ em' = [remove_all_components(em, h.id) EXCEPT
              !.entity_versions_[h.id.index + 1] = (@ + 1) % VersionModulus,
              !.component_mask_to_index_accessor_[mask(em, h.id.index)].free_list =
                 Append(@, h.id.index),
              !.count_ = @ - 1]
  /\ gh' = Retire(gh, h.id)
  /\ last' = Call("destroy", 0, <<>>)
  /\ UNCHANGED fault
  /\ UNCHANGED outside

\* entity.destroy()
Destroy(h) ==
  /\ ~ fault
  /\ remove_all_components_asserts(em, h.id)
  /\ em' = destroy(em, h.id)
  /\ gh' = Retire(gh, h.id)
  /\ last' = Call("destroy", 0, <<>>)
  /\ UNCHANGED fault
  /\ UNCHANGED outside

\* entity.add<C>(v)
Add(h, c, v) ==
  /\ ~ fault
  /\ create_component_asserts(em, h.id, c)
  /\ em' = create_component(em, h.id, c, v)
  /\ last' = Call("add", 0, <<>>)
  /\ UNCHANGED <<gh, fault>>
  /\ UNCHANGED outside

\* entity.set<C>(v)
Set(h, c, v) ==
  /\ ~ fault
  /\ is_valid(em, h.id)
  /\ em' = set_component(em, h.id, c, v)
  /\ last' = [Call("set", em.component_managers_[c].obj[h.id.index], <<>>)
                EXCEPT !.value = v]
  /\ UNCHANGED <<gh, fault>>
  /\ UNCHANGED outside

\* entity.remove<C>()
Remove(h, c) ==
  /\ ~ fault
  /\ remove_component_asserts(em, h.id, c)
  /\ Pool_destroy_asserts(em, c, h.id.index)
  /\ em' = remove_component(em, h.id, c)
  /\ last' = Call("remove", 0, <<>>)
  /\ UNCHANGED <<gh, fault>>
  /\ UNCHANGED outside

\* entity.remove_everything()
RemoveEverything(h) ==
  /\ ~ fault
  /\ remove_all_components_asserts(em, h.id)
  /\ em' = remove_all_components(em, h.id)
  /\ last' = Call("remove_everything", 0, <<>>)
  /\ UNCHANGED <<gh, fault>>
  /\ UNCHANGED outside

\* entities.with<Components...>().count(), entities.with(lambda),
\* entities.fetch_every<T>(): one walk, the body leaves the manager alone.
Query(mask_) ==
  /\ ~ fault
  /\ last' = [Call("query", 0, <<>>) EXCEPT !.mask_ = mask_,
                                            !.yielded = View_walk(em, mask_)]
  /\ UNCHANGED <<em, gh, fault>>
  /\ UNCHANGED outside

Next ==
  \/ em.count_ < MaxCount /\ Create
  \/ \E n \in 0 .. MaxBulk : em.count_ + n <= MaxCount /\ CreateN(n)
  \/ \E m \in ComponentMask \ {{}} : em.count_ < MaxCount /\ CreateWith(m)
  \/ \E h \in gh.handles : Destroys(gh) < MaxDestroys /\ Destroy(h)
  \/ \E h \in gh.handles, c \in Components : Add(h, c, DefaultValue)
  \/ \E h \in gh.handles, c \in Components : Set(h, c, DefaultValue)
  \/ \E h \in gh.handles, c \in Components : Remove(h, c)
  \/ \E h \in gh.handles : RemoveEverything(h)
  \/ \E m \in ComponentMask : Query(m)

Spec == Init /\ [][Next]_vars

\* Runs that recycle one slot until its version wraps around.
NextWrap ==
  \/ em.count_ < WrapLive /\ Create
  \/ \E h \in gh.handles : gh.destroyed[h.id.index] < WrapDestroys /\ Destroy(h)

SpecWrap == Init /\ [][NextWrap]_vars

\* details::component_index<C>() for the type t
Reference(t) ==
  /\ ~ fault
  /\ LET r == component_index(statics, t)
     IN /\ statics' = r.s
        /\ last' = [Call(IF r.ok THEN "component_index" ELSE "component_index_assert",
                         r.index, <<>>)
                      EXCEPT !.type = t]
  /\ UNCHANGED <<em, gh, fault, walk, systems, unallocated>>

\* Runs that refer to component types in any order.
NextRegistry ==
  \E t \in Types :
    statics.component_counter < ECS_MAX_NUM_OF_COMPONENTS + MaxFailed /\ Reference(t)

SpecRegistry == InitRegistry /\ [][NextRegistry]_vars

(***************************************************************************)
(* RemoveDeadEntitiesSystem::update:                                       *)
(*   for (auto entity : entities().with<Health>())                         *)
(*     if (entity.get<Health>() <= 0) entity.destroy();                    *)
(* The range-for takes begin() and end() once, runs the body on *it while  *)
(* it != end, and increments it after each body.  One step of the model is *)
(* one turn of the loop; which entities the body finds dead is open.       *)
(***************************************************************************)
\* auto it = view.begin(), end = view.end();
WalkBegin(mask_) ==
  /\ ~ fault
  /\ ~ walk.active
  /\ walk' = [active |-> TRUE,
              it |-> Iterator(em, mask_, TRUE),
              end |-> Iterator(em, mask_, FALSE),
              yielded |-> <<>>,
              destroyed |-> <<>>,
              began |-> {s \in Slots : /\ s < Len(em.component_masks_)
                                       /\ gh.occupants[s] > 0
                                       /\ mask_ \subseteq mask(em, s)},
              count_begin |-> em.count_]
  /\ last' = [Call("walk_begin", 0, <<>>) EXCEPT !.mask_ = mask_]
  /\ UNCHANGED <<em, gh, fault, statics, systems, unallocated>>

\* One turn of the loop: the body on *it, which destroys the entity when
\* dead is true, then ++it.  A failing assertion in destroy ends the loop.
\* A ++it that reads outside component_masks_ has no defined outcome (fault).
WalkBody(dead) ==
  /\ ~ fault
  /\ walk.active
  /\ walk.it.cursor_ # walk.end.cursor_
  /\ LET entity == get_entity(em, walk.it.cursor_)
         ok == remove_all_components_asserts(em, entity)
         w == IF dead /\ ok THEN destroy(em, entity) ELSE em
     IN /\ em' = w
        /\ gh' = IF dead /\ ok THEN Retire(gh, entity) ELSE gh
        /\ IF dead /\ ~ ok
           THEN /\ walk' = NoWalk
                /\ last' = [Call("walk_assert", 0, <<entity>>)
                              EXCEPT !.mask_ = walk.it.mask_]
                /\ UNCHANGED fault
           ELSE /\ walk' = [walk EXCEPT
                              !.it = Iterator_increment(w, walk.it),
                              !.yielded = Append(@, walk.it.cursor_),
                              !.destroyed = IF dead THEN Append(@, entity) ELSE @]
                /\ last' = [Call("walk_body", 0, <<entity>>)
                              EXCEPT !.mask_ = walk.it.mask_]
                /\ fault' = find_next_reads_outside(
                               w, [walk.it EXCEPT !.cursor_ = @ + 1])
  /\ UNCHANGED <<statics, systems, unallocated>>

\* it == end: the loop is left.
WalkEnd ==
  /\ ~ fault
  /\ walk.active
  /\ walk.it.cursor_ = walk.end.cursor_
  /\ walk' = [walk EXCEPT !.active = FALSE]
  /\ last' = [Call("walk", Len(walk.destroyed), walk.destroyed)
                EXCEPT !.mask_ = walk.it.mask_, !.yielded = walk.yielded,
                       !.count_before = walk.count_begin]
  /\ UNCHANGED <<em, gh, fault, statics, systems, unallocated>>

\* Runs that fill a manager, add components, and walk views with a body
\* that destroys; nothing else runs while a loop is under way.
NextWalk ==
  \/ ~ walk.active /\ em.count_ < WalkLive /\ Create
  \/ \E m \in ComponentMask \ {{}} :
       ~ walk.active /\ em.count_ < WalkLive /\ CreateWith(m)
  \/ \E h \in gh.handles :
       ~ walk.active /\ Destroys(gh) < WalkDestroys /\ Destroy(h)
  \/ \E m \in ComponentMask : Destroys(gh) < WalkDestroys /\ WalkBegin(m)
  \/ \E dead \in BOOLEAN : (dead => Destroys(gh) < WalkDestroys) /\ WalkBody(dead)
  \/ WalkEnd

SpecWalk == Init /\ [][NextWalk]_vars

\* The loop is not left to wait for ever: its next turn is taken.
SpecWalkFair ==
  SpecWalk /\ WF_vars(\E dead \in {FALSE} : WalkBody(dead)) /\ WF_vars(WalkEnd)

\* One turn of a loop whose body creates entities: entities.create() when
\* bulk is false, entities.create(n) when it is true, then ++it.  A ++it that
\* reads outside component_masks_ has no defined outcome (fault).
WalkBodyCreate(bulk, n) ==
  /\ ~ fault
  /\ walk.active
  /\ walk.it.cursor_ # walk.end.cursor_
  /\ LET entity == get_entity(em, walk.it.cursor_)
         single == create_with_mask(em, {})
         many == create_with_mask_n(em, {}, n)
         w == IF bulk THEN many.w ELSE single.w
         entities == IF bulk THEN many.entities ELSE <<single.entity>>
         next == [walk.it EXCEPT !.cursor_ = @ + 1]
     IN /\ w.block_count_ <= MaxBlocks
        /\ ~ (bulk /\ many.fault)
        /\ em' = w
        /\ gh' = [Issue(gh, entities)
                   EXCEPT !.made[{}] =
                            @ \o [i \in 1 .. Len(entities) |-> entities[i].index]]
        /\ fault' = find_next_reads_outside(w, next)
        /\ walk' = [walk EXCEPT !.it = find_next(w, next),
                                !.yielded = Append(@, walk.it.cursor_)]
        /\ last' = [Call("walk_body_create", Len(entities), entities)
                      EXCEPT !.mask_ = walk.it.mask_]
  /\ UNCHANGED <<statics, systems, unallocated>>

\* Runs that fill a manager with single and bulk creates and walk views with
\* a body that creates entities.
NextWalkCreate ==
  \/ ~ walk.active /\ em.count_ < WalkLive /\ Create
  \/ \E n \in 0 .. MaxBulk : ~ walk.active /\ em.count_ + n <= WalkLive /\ CreateN(n)
  \/ \E m \in ComponentMask \ {{}} :
       ~ walk.active /\ em.count_ < WalkLive /\ CreateWith(m)
  \/ \E m \in ComponentMask : WalkBegin(m)
  \/ WalkBody(FALSE)
  \/ \E bulk \in BOOLEAN, n \in 0 .. MaxBulk :
       /\ em.count_ + (IF bulk THEN n ELSE 1) <= WalkLive + WalkCreates
       /\ WalkBodyCreate(bulk, n)
  \/ WalkEnd

SpecWalkCreate == Init /\ [][NextWalkCreate]_vars

\* The loop goes on with a copy of its iterator (an algorithm that takes
\* iterators by value, it2 = Iterator(it)).
WalkCopy ==
  /\ ~ fault
  /\ walk.active
  /\ walk' = [walk EXCEPT !.it = Iterator_copy(em, walk.it)]
  /\ last' = [Call("iterator_copy", 0, <<>>) EXCEPT !.mask_ = walk.it.mask_]
  /\ UNCHANGED <<em, gh, fault, statics, systems, unallocated>>

\* Runs that fill a manager and walk views with copies of the iterator.
NextWalkCopy ==
  \/ ~ walk.active /\ em.count_ < WalkLive /\ Create
  \/ \E m \in ComponentMask \ {{}} :
       ~ walk.active /\ em.count_ < WalkLive /\ CreateWith(m)
  \/ \E m \in ComponentMask : WalkBegin(m)
  \/ Len(walk.yielded) < WalkLive /\ WalkCopy
  \/ Len(walk.yielded) < 2 * WalkLive /\ WalkBody(FALSE)
  \/ WalkEnd

SpecWalkCopy == Init /\ [][NextWalkCopy]_vars

\* pool.ensure_min_size(size) on the pool of component c; count_before
\* keeps the capacity the pool had before the call.
PoolEnsureMinSize(c, size) ==
  /\ ~ fault
  /\ em' = [get_component_manager(em, c) EXCEPT
              !.component_managers_[c] = ensure_min_size(@, size)]
  /\ last' = [Call("ensure_min_size", size, <<>>)
                EXCEPT !.type = c,
                       !.count_before = em.component_managers_[c].capacity_]
  /\ UNCHANGED <<gh, fault>>
  /\ UNCHANGED outside

\* pool.ensure_min_capacity(min_capacity) on the pool of component c
PoolEnsureMinCapacity(c, min_capacity) ==
  /\ ~ fault
  /\ em' = [get_component_manager(em, c) EXCEPT
              !.component_managers_[c] = ensure_min_capacity(@, min_capacity)]
  /\ last' = [Call("ensure_min_capacity", min_capacity, <<>>)
                EXCEPT !.type = c,
                       !.count_before = em.component_managers_[c].capacity_]
  /\ UNCHANGED <<gh, fault>>
  /\ UNCHANGED outside

\* Runs that grow the pools, directly and through the components added to
\* entities.
NextPool ==
  \/ em.count_ < MaxCount /\ Create
  \/ \E h \in gh.handles, c \in Components : Add(h, c, DefaultValue)
  \/ \E c \in Components, size \in 0 .. MaxPoolSize : PoolEnsureMinSize(c, size)
  \/ \E c \in Components, min_capacity \in 0 .. MaxPoolSize :
       PoolEnsureMinCapacity(c, min_capacity)

SpecPool == Init /\ [][NextPool]_vars

\* systems.exists<S>()
Exists(S) ==
  /\ ~ fault
  /\ systems' = system_index(systems, S)
  /\ last' = [Call("exists", IF exists(systems', S) THEN 1 ELSE 0, <<>>)
                EXCEPT !.type = S]
  /\ UNCHANGED <<em, gh, fault, statics, walk, unallocated>>

\* systems.add<S>(); the assertion !exists<S>() fails for a system that
\* exists.
SystemAdd(S) ==
  /\ ~ fault
  /\ LET sm == system_index(systems, S)
     IN IF exists(sm, S)
        THEN /\ systems' = sm
             /\ last' = [Call("system_add_assert", 0, <<>>) EXCEPT !.type = S]
        ELSE /\ systems' = SystemManager_add(sm, S)
             /\ last' = [Call("system_add", 0, <<>>) EXCEPT !.type = S]
  /\ UNCHANGED <<em, gh, fault, statics, walk, unallocated>>

\* systems.remove<S>(); the assertion exists<S>() fails for a system that
\* does not exist.
SystemRemove(S) ==
  /\ ~ fault
  /\ LET sm == system_index(systems, S)
         r == SystemManager_remove(sm, S)
     IN IF ~ exists(sm, S)
        THEN /\ systems' = sm
             /\ last' = [Call("system_remove_assert", 0, <<>>) EXCEPT !.type = S]
             /\ UNCHANGED fault
        ELSE /\ systems' = r.sm
             /\ last' = [Call("system_remove", 0, <<>>) EXCEPT !.type = S]
             /\ fault' = r.fault
  /\ UNCHANGED <<em, gh, statics, walk, unallocated>>

\* systems.update(time)
SystemUpdate(stale) ==
  /\ ~ fault
  /\ LET r == SystemManager_update(systems, stale)
     IN /\ last' = [Call("system_update", 0, <<>>) EXCEPT !.yielded = r.called]
        /\ fault' = r.fault
  /\ UNCHANGED <<em, gh, statics, walk, systems, unallocated>>

\* Runs of a SystemManager: systems referred to, added, removed and
\* updated in any order.
NextSystems ==
  \/ \E S \in SystemTypes : Exists(S)
  \/ \E S \in SystemTypes : Len(systems.order_) < MaxOrder /\ SystemAdd(S)
  \/ \E S \in SystemTypes : SystemRemove(S)
  \/ \E stale \in BOOLEAN : SystemUpdate(stale)

SpecSystems == Init /\ [][NextSystems]_vars

\* Runs of creates only, on a manager of PlaceBlocks blocks.
NextPlace ==
  \/ em.count_ < PlaceCount /\ CreateIn(PlaceBlocks)
  \/ \E n \in 0 .. MaxBulk : em.count_ + n <= PlaceCount /\ CreateNIn(PlaceBlocks, n)
  \/ \E m \in ComponentMask \ {{}} : em.count_ < PlaceCount /\ CreateWithIn(PlaceBlocks, m)

SpecPlace == Init /\ [][NextPlace]_vars

(***************************************************************************)
(* Callers that build an entity through an UnallocatedEntity: components   *)
(* are added to it before it has a slot, and the conversion to Entity,     *)
(* id(), as<T>() or the destructor allocate it.                            *)
(***************************************************************************)
\* UnallocatedEntity entity = entities.create(); the one UnallocatedEntity of
\* the run.
UnallocatedCreate ==
  /\ ~ fault
  /\ ~ unallocated.in_scope
  /\ unallocated' = UnallocatedEntity_new
  /\ last' = Call("unallocated_create", 0, <<>>)
  /\ UNCHANGED <<em, gh, fault, statics, walk, systems>>

\* entity.add<C>(v) before allocation; add<C> of a component it has fails
\* the assertion.
UnallocatedAdd(c, v) ==
  /\ ~ fault
  /\ unallocated.manager_
  /\ IF c \in unallocated.mask_
     THEN /\ last' = Call("unallocated_add_assert", 0, <<>>)
          /\ UNCHANGED <<em, unallocated>>
     ELSE /\ em' = get_component_manager(em, c)
          /\ unallocated' = UnallocatedEntity_add(unallocated, c, v)
          /\ last' = [Call("unallocated_add", 0, <<>>) EXCEPT !.value = v]
  /\ UNCHANGED <<gh, fault, statics, walk, systems>>

\* entity.remove<C>() before allocation
UnallocatedRemove(c) ==
  /\ ~ fault
  /\ unallocated.manager_
  /\ unallocated' = UnallocatedEntity_remove(unallocated, c)
  /\ last' = Call("unallocated_remove", 0, <<>>)
  /\ UNCHANGED <<em, gh, fault, statics, walk, systems>>

\* entity.remove_everything() before allocation
UnallocatedRemoveEverything ==
  /\ ~ fault
  /\ unallocated.manager_
  /\ unallocated' = UnallocatedEntity_remove_everything(unallocated)
  /\ last' = Call("unallocated_remove_everything", 0, <<>>)
  /\ UNCHANGED <<em, gh, fault, statics, walk, systems>>

\* Entity e = entity; entity.id(); entity.as<T>(); the end of the scope of
\* entity: allocate(), and the Entity it holds from then on.
Allocate ==
  /\ ~ fault
  /\ unallocated.in_scope
  /\ IF is_allocated(unallocated)
     THEN /\ last' = Call("allocate", 0, <<unallocated.entity_>>)
          /\ UNCHANGED <<em, gh, unallocated>>
     ELSE LET r == UnallocatedEntity_allocate(em, unallocated)
          IN /\ em' = r.w
             /\ unallocated' = r.u
             /\ gh' = [Issue(gh, <<r.u.entity_>>)
                        EXCEPT !.made[unallocated.mask_] = Append(@, r.u.entity_.index)]
             /\ last' = [Call("allocate", 1, <<r.u.entity_>>)
                           EXCEPT !.mask_ = unallocated.mask_]
  /\ UNCHANGED <<fault, statics, walk, systems>>

\* entity.remove<C>() on a live entity with C whose pool is not as large as
\* the entity's index: the assertion of Pool<T>::destroy fails.
RemovePoolAssert(h, c) ==
  /\ ~ fault
  /\ remove_component_asserts(em, h.id, c)
  /\ ~ Pool_destroy_asserts(em, c, h.id.index)
  /\ last' = Call("remove_pool_assert", 0, <<>>)
  /\ UNCHANGED <<em, gh, fault>>
  /\ UNCHANGED outside

\* entity.remove_everything() and entity.destroy() on such an entity: the
\* managers before the failing one have removed their objects.
RemoveAllPoolAssert(h, op) ==
  /\ ~ fault
  /\ is_valid(em, h.id)
  /\ ~ remove_all_components_asserts_pool_only(em, h.id)
  /\ em' = remove_all_components_until_assert(em, h.id, 0)
  /\ last' = Call(op, 0, <<>>)
  /\ UNCHANGED <<gh, fault>>
  /\ UNCHANGED outside

(***************************************************************************)
(* Callers that read components and callers that break a contract.  An     *)
(* ECS_ASSERT that fails stops the call before it has changed anything     *)
(* (abort, or the exception of the unit tests' macro).                     *)
(***************************************************************************)
\* entity.get<C>()
Get(h, c) ==
  /\ ~ fault
  /\ get_component_asserts(em, h.id, c)
  /\ last' = [Call("get", 0, <<>>) EXCEPT !.value = get_component(em, h.id, c)]
  /\ UNCHANGED <<em, gh, fault>>
  /\ UNCHANGED outside

\* entity.add<C>(v) on a live entity that has C
AddPresent(h, c, v) ==
  /\ ~ fault
  /\ is_valid(em, h.id)
  /\ ~ create_component_asserts(em, h.id, c)
  /\ last' = [Call("add_assert", 0, <<>>) EXCEPT !.value = v]
  /\ UNCHANGED <<em, gh, fault>>
  /\ UNCHANGED outside

\* entity.remove<C>() on a live entity without C
RemoveAbsent(h, c) ==
  /\ ~ fault
  /\ is_valid(em, h.id)
  /\ ~ remove_component_asserts(em, h.id, c)
  /\ last' = Call("remove_assert", 0, <<>>)
  /\ UNCHANGED <<em, gh, fault>>
  /\ UNCHANGED outside

\* entity.get<C>() on a live entity without C
GetAbsent(h, c) ==
  /\ ~ fault
  /\ is_valid(em, h.id)
  /\ ~ get_component_asserts(em, h.id, c)
  /\ last' = Call("get_assert", 0, <<>>)
  /\ UNCHANGED <<em, gh, fault>>
  /\ UNCHANGED outside

\* Runs of callers that add, set, read and remove components with values,
\* also where the component is already there or is missing.
NextUse ==
  \/ em.count_ < UseLive /\ Create
  \/ \E h \in gh.handles, c \in Components, v \in Values : Add(h, c, v)
  \/ \E h \in gh.handles, c \in Components, v \in Values : Set(h, c, v)
  \/ \E h \in gh.handles, c \in Components : Remove(h, c)
  \/ \E h \in gh.handles, c \in Components : Get(h, c)
  \/ \E h \in gh.handles, c \in Components, v \in Values : AddPresent(h, c, v)
  \/ \E h \in gh.handles, c \in Components : RemoveAbsent(h, c)
  \/ \E h \in gh.handles, c \in Components : GetAbsent(h, c)

SpecUse == Init /\ [][NextUse]_vars

\* entity.clear_mask()
ClearMask(h) ==
  /\ ~ fault
  /\ is_valid(em, h.id)
  /\ em' = clear_mask(em, h.id)
  /\ last' = Call("clear_mask", 0, <<>>)
  /\ UNCHANGED <<gh, fault>>
  /\ UNCHANGED outside

\* The operations of an Entity that begin with ECS_ASSERT_VALID_ENTITY.
EntityCalls ==
  {"destroy", "add", "set", "remove", "get", "has", "remove_everything",
   "clear_mask"}

\* One of them called through a handle whose version is not the slot's.
StaleCall(h, op) ==
  /\ ~ fault
  /\ ~ is_valid(em, h.id)
  /\ last' = Call(op \o "_assert", 0, <<>>)
  /\ UNCHANGED <<em, gh, fault>>
  /\ UNCHANGED outside

\* The handles a caller of SpecStale goes on using: the first of each slot
\* and those issued from the round before the version wraps.
Kept(g) == {h \in g.handles : h.born = 0 \/ h.born >= WrapStart - 1}

\* Runs that recycle the first slot WrapStart times and then cross the wrap
\* of its version with every kind of call, through live and old handles.
NextStale ==
  \/ em.count_ < WrapLive /\ Create
  \/ \E h \in gh.handles : Destroys(gh) < WrapStart + StaleDestroys /\ Destroy(h)
  \/ \E n \in 0 .. WrapLive :
       Destroys(gh) >= WrapStart /\ em.count_ + n <= WrapLive /\ CreateN(n)
  \/ \E m \in ComponentMask \ {{}} :
       Destroys(gh) >= WrapStart /\ em.count_ < WrapLive /\ CreateWith(m)
  \/ \E h \in Kept(gh), c \in Components :
       Destroys(gh) >= WrapStart /\ Add(h, c, DefaultValue)
  \/ \E h \in Kept(gh), c \in Components :
       Destroys(gh) >= WrapStart /\ Set(h, c, DefaultValue)
  \/ \E h \in Kept(gh), c \in Components :
       Destroys(gh) >= WrapStart /\ Remove(h, c)
  \/ \E h \in Kept(gh) : Destroys(gh) >= WrapStart /\ RemoveEverything(h)
  \/ \E h \in Kept(gh) :
       /\ Destroys(gh) >= WrapStart
       /\ \A c \in Components : em.component_managers_[c].obj[h.id.index] <= MaxLeak
       /\ ClearMask(h)
  \/ \E m \in ComponentMask : Destroys(gh) >= WrapStart /\ Query(m)
  \/ \E h \in Kept(gh), op \in EntityCalls :
       Destroys(gh) >= WrapStart /\ StaleCall(h, op)

SpecStale == Init /\ [][NextStale]_vars

\* Runs of callers that build entities through an UnallocatedEntity and
\* through create_with, and use them.
NextUnallocated ==
  \/ em.count_ < UnallocatedLive /\ UnallocatedCreate
  \/ \E c \in Components, v \in Values :
       Len(unallocated.component_headers_) < MaxHeaders /\ UnallocatedAdd(c, v)
  \/ \E c \in Components : UnallocatedRemove(c)
  \/ UnallocatedRemoveEverything
  \/ Allocate
  \/ \E m \in ComponentMask \ {{}} :
       /\ ~ unallocated.in_scope
       /\ em.count_ + 1 < UnallocatedLive
       /\ CreateWith(m)
  \/ \E h \in gh.handles, c \in Components : Remove(h, c)
  \/ \E h \in gh.handles : RemoveEverything(h)
  \/ \E h \in gh.handles : Destroys(gh) < MaxDestroys /\ Destroy(h)
  \/ \E h \in gh.handles, c \in Components : RemovePoolAssert(h, c)
  \/ \E h \in gh.handles, op \in {"remove_everything_pool_assert", "destroy_pool_assert"} :
       RemoveAllPoolAssert(h, op)

SpecUnallocated == Init /\ [][NextUnallocated]_vars

\* Runs of callers that create single entities, add components to those from
\* create(), destroy them and create again.
NextReuse ==
  \/ em.count_ < ReuseLive /\ Create
  \/ \E m \in ComponentMask \ {{}} : em.count_ < ReuseLive /\ CreateWith(m)
  \/ \E h \in gh.handles, c \in Components :
       h.id.index \in Range(gh.made[{}]) /\ Add(h, c, DefaultValue)
  \/ \E h \in gh.handles : Destroys(gh) < ReuseDestroys /\ Destroy(h)

SpecReuse == Init /\ [][NextReuse]_vars

\* Runs of callers that clear the mask of entities with components, and
\* remove everything from them or destroy them afterwards.
NextClear ==
  \/ em.count_ < UseLive /\ Create
  \/ \E h \in gh.handles, c \in Components, v \in Values \ {DefaultValue} :
       em.component_managers_[c].obj[h.id.index] < MaxLeak /\ Add(h, c, v)
  \/ \E h \in gh.handles :
       /\ \A c \in Components : em.component_managers_[c].obj[h.id.index] <= MaxLeak
       /\ ClearMask(h)
  \/ \E h \in gh.handles : RemoveEverything(h)
  \/ \E h \in gh.handles : Destroys(gh) < MaxDestroys /\ Destroy(h)

SpecClear == Init /\ [][NextClear]_vars

\* entities[id] with the Id of a handle the caller kept
Subscript(h) ==
  /\ ~ fault
  /\ last' = IF subscript_asserts(em, h.id)
             THEN Call("subscript", 1, <<get_entity_of_id(em, h.id)>>)
             ELSE Call("subscript_assert", 0, <<h.id>>)
  /\ UNCHANGED <<em, gh, fault>>
  /\ UNCHANGED outside

\* Runs of callers that create and destroy entities and look kept Ids up.
NextSubscript ==
  \/ em.count_ < ReuseLive /\ Create
  \/ \E h \in gh.handles : Destroys(gh) < ReuseDestroys /\ Destroy(h)
  \/ \E h \in gh.handles : Subscript(h)

SpecSubscript == Init /\ [][NextSubscript]_vars

(***************************************************************************)
(* Properties.                                                             *)
(***************************************************************************)
Occupied(s) == gh.occupants[s] > 0

CountIn(seq, x) == Cardinality({i \in 1 .. Len(seq) : seq[i] = x})

SameBag(a, b) ==
  /\ Len(a) = Len(b)
  /\ \A x \in Range(a) \cup Range(b) : CountIn(a, x) = CountIn(b, x)

Creates == {"create", "create_n", "create_with"}

\* C1: no slot is occupied by two live entities: every create, single or
\* bulk, hands out only slots that no live entity occupies.
C1_NoSharedSlot == \A s \in Slots : gh.occupants[s] <= 1

\* C2: count() is the number of slots handed out by a create and not
\* destroyed since.
C2_CountIsLive == em.count_ = Cardinality({s \in Slots : Occupied(s)})

C5_BulkReturnsN ==
  last.op = "create_n" =>
    /\ ~ fault
    /\ Len(last.ret) = last.n
    /\ em.count_ = last.count_before + last.n

\* C6: create(n) returns the handles n consecutive create() calls would
\* return from the same state, as a multiset.
C6_BulkEqualsSequential ==
  last.op = "create_n" =>
    /\ ~ fault
    /\ SameBag(last.ret, last.sequential)

\* C7: an entity returned by create() or create(n) has an empty mask.
C7_CreatedMaskEmpty ==
  last.op \in {"create", "create_n"} =>
    \A i \in 1 .. Len(last.ret) : mask(em, last.ret[i].index) = {}

\* C8: the bit of C is set in the mask of a slot exactly when one C object
\* is constructed (and not destructed) at that slot in C's pool; no slot
\* ever holds two, and no object is left where the bit is clear.
C8_MaskIffConstructed ==
  /\ \A c \in Components, s \in Slots :
       em.component_managers_[c].obj[s] =
         IF s < Len(em.component_masks_) /\ c \in mask(em, s) THEN 1 ELSE 0
  /\ \A i \in 1 .. Len(em.component_masks_) :
       (i - 1) \notin Slots => em.component_masks_[i] = {}

\* remove_everything has just destructed the components of one entity while
\* another entity keeps one.
C8_Witness ==
  /\ last.op = "remove_everything"
  /\ \E c \in Components, s \in Slots : em.component_managers_[c].obj[s] = 1
  /\ \E s \in Slots : Occupied(s) /\ mask(em, s) = {}

\* C9: a walk for mask M over an unchanged manager yields strictly ascending
\* indexes of rows whose mask contains M, and every live entity whose mask
\* contains M is among them exactly once.
C9_QueryYieldsMatchingOnceAscending ==
  last.op = "query" =>
    /\ \A i \in 1 .. Len(last.yielded) - 1 : last.yielded[i] < last.yielded[i + 1]
    /\ \A i \in 1 .. Len(last.yielded) :
         /\ last.yielded[i] < Len(em.component_masks_)
         /\ last.mask_ \subseteq mask(em, last.yielded[i])
    /\ \A s \in Slots :
         (Occupied(s) /\ last.mask_ \subseteq mask(em, s))
            => CountIn(last.yielded, s) = 1

\* A walk for a non-empty mask passed over a live entity without the
\* components and yielded a later one.
C9_Witness ==
  /\ last.op = "query"
  /\ last.mask_ # {}
  /\ \E s \in Range(last.yielded), t \in Slots :
       t < s /\ Occupied(t) /\ t \notin Range(last.yielded)

\* C10: the slots a walk for mask M yields are exactly the slots of live
\* entities whose mask contains M, also for the empty mask, where the walk
\* yields count() entities.
C10_QueryYieldsExactlyLive ==
  last.op = "query" =>
    /\ Range(last.yielded) =
         {s \in Slots : Occupied(s) /\ last.mask_ \subseteq mask(em, s)}
    /\ last.mask_ = {} => Len(last.yielded) = em.count_

\* The C objects in the stores, per component and slot.
Objects(w) == [c \in Components |-> w.component_managers_[c].obj]

C12_ContractViolationsChangeNothing ==
  [][\A h \in gh.handles, c \in Components :
       is_valid(em, h.id) =>
         /\ has_component(em, h.id, {c}) => \A v \in Values : ~ Add(h, c, v)
         /\ ~ has_component(em, h.id, {c}) => ~ Remove(h, c) /\ ~ Get(h, c)
         /\ ((\E v \in Values : AddPresent(h, c, v))
               \/ RemoveAbsent(h, c) \/ GetAbsent(h, c))
            => /\ em'.component_masks_ = em.component_masks_
               /\ em'.component_managers_ = em.component_managers_
               /\ em'.entity_versions_ = em.entity_versions_
               /\ em'.count_ = em.count_]_vars

\* An add<C> has just failed on an entity that has C, while another entity
\* is without it.
C12_Witness ==
  /\ last.op = "add_assert"
  /\ \E c \in Components, s, t \in Slots :
       /\ em.component_managers_[c].obj[s] = 1
       /\ Occupied(t) /\ c \notin mask(em, t)

\* A step that is the effect of a call made through the handle h.
CallThrough(h) ==
  \/ Destroy(h)
  \/ RemoveEverything(h)
  \/ ClearMask(h)
  \/ \E c \in Components :
       \/ Add(h, c, DefaultValue)
       \/ Set(h, c, DefaultValue)
       \/ Remove(h, c)
       \/ Get(h, c)

\* A step in which a call ended at ECS_ASSERT_VALID_ENTITY.
StaleCallStep == \E h \in Kept(gh), op \in EntityCalls : StaleCall(h, op)

\* C13 (as stated): no call through a handle whose slot was destroyed since
\* the handle was issued takes effect, and the failing call leaves versions,
\* masks, stores, free lists and count() as they were.
C13_StaleCallsFail ==
  [][/\ \A h \in Kept(gh) :
          gh.destroyed[h.id.index] # h.born => ~ CallThrough(h)
     /\ StaleCallStep => em' = em]_vars

\* C13 (amended): no call through a handle whose version differs from the
\* version stored for its slot takes effect, and the failing call leaves
\* versions, masks, stores, free lists and count() as they were.
C13_MismatchedCallsFail ==
  [][/\ \A h \in Kept(gh) :
          h.id.version # em.entity_versions_[h.id.index + 1] => ~ CallThrough(h)
     /\ StaleCallStep => em' = em]_vars

\* A destroy through an old handle has just failed while a new entity lives
\* in the slot.
C13_Witness ==
  /\ last.op = "destroy_assert"
  /\ em.count_ = 1
  /\ \E h \in Kept(gh) :
       /\ Occupied(h.id.index)
       /\ h.id.version # em.entity_versions_[h.id.index + 1]

\* C14: remove_everything on a live entity destructs every component the
\* entity has and leaves its mask empty; the entity stays valid, and
\* versions, count(), the free lists and the masks and components of every
\* other slot are as before.
C14_RemoveEverythingFrame ==
  [][\A h \in gh.handles :
       RemoveEverything(h) =>
         LET i == h.id.index
         IN /\ mask(em', i) = {}
            /\ \A c \in Components :
                 /\ em'.component_managers_[c].obj[i] = 0
                 /\ em.component_managers_[c].obj[i] =
                      IF c \in mask(em, i) THEN 1 ELSE 0
            /\ is_valid(em', h.id)
            /\ em'.entity_versions_ = em.entity_versions_
            /\ em'.count_ = em.count_
            /\ em'.component_mask_to_index_accessor_ =
                 em.component_mask_to_index_accessor_
            /\ \A s \in Slots \ {i} :
                 /\ s < Len(em.component_masks_) => mask(em', s) = mask(em, s)
                 /\ \A c \in Components :
                      /\ em'.component_managers_[c].obj[s] =
                           em.component_managers_[c].obj[s]
                      /\ em'.component_managers_[c].val[s] =
                           em.component_managers_[c].val[s]]_vars

\* remove_everything has just emptied the entity of slot 1, whose pool had
\* grown to hold it, while the entity of slot 0 keeps its components.
C14_Witness ==
  /\ last.op = "remove_everything"
  /\ Occupied(0) /\ Occupied(1)
  /\ mask(em, 1) = {} /\ mask(em, 0) # {}
  /\ \E c \in Components : em.component_managers_[c].size_ > 1

\* The mask recorded for the block of slot s when the block was created.
BlockMask(w, s) == w.index_to_component_mask[(s \div ECS_CACHE_LINE_SIZE) + 1]

BlocksFor(k) == (k + ECS_CACHE_LINE_SIZE - 1) \div ECS_CACHE_LINE_SIZE

BlockOf(s) == s \div ECS_CACHE_LINE_SIZE

C17_PlacedAfterLatestOfMask ==
  [][(Destroys(gh) = 0 /\ last'.op \in {"create", "create_with"}) =>
       LET m == last'.mask_
           s == last'.ret[1].index
           earlier == gh.made[m]
           opened == ECS_CACHE_LINE_SIZE * em.block_count_
       IN IF earlier = <<>> THEN s = opened
          ELSE IF (Last(earlier) + 1) % ECS_CACHE_LINE_SIZE # 0
          THEN s = Last(earlier) + 1
          ELSE s = opened]_vars

\* The destroys of slot s in the step.
DestroyedNow(s) == gh'.destroyed[s] - gh.destroyed[s]

\* The slots that have a version before and after the step.
Versioned ==
  {s \in Slots : s < Len(em.entity_versions_) /\ s < Len(em'.entity_versions_)}

\* C18: the version stored for a slot never decreases; a destroy of the
\* slot adds exactly one to it, and no other call (create, create(n),
\* create_with, add, set, remove, remove_everything, clear_mask, a query)
\* changes it.
C18_VersionNeverDecreases ==
  [][\A s \in Versioned :
       /\ em'.entity_versions_[s + 1] >= em.entity_versions_[s + 1]
       /\ em'.entity_versions_[s + 1] = em.entity_versions_[s + 1] + DestroyedNow(s)
       /\ DestroyedNow(s) = 1 => last'.op = "destroy"]_vars

\* C18 as the code has it: a destroy of the slot adds one to its version
\* modulo 256, so the version falls from 255 to 0 at every 256th destroy
\* of the slot; no other call changes it.
C18_VersionCountsDestroysMod256 ==
  [][\A s \in Versioned :
       /\ DestroyedNow(s) \in {0, 1}
       /\ em'.entity_versions_[s + 1] =
            (em.entity_versions_[s + 1] + DestroyedNow(s)) % VersionModulus
       /\ DestroyedNow(s) = 1 => last'.op = "destroy"]_vars

\* The 256th destroy of a slot has just brought its version back to 0.
C18_Witness ==
  \E s \in Slots :
    /\ last.op = "destroy"
    /\ gh.destroyed[s] = VersionModulus
    /\ s < Len(em.entity_versions_)
    /\ em.entity_versions_[s + 1] = 0

\* C19: entity_versions_ and component_masks_ have the same length at all
\* times, and no create, bulk create or destroy makes that length smaller.
C19_TablesSameLengthNeverShrink ==
  [][/\ Len(em.entity_versions_) = Len(em.component_masks_)
     /\ Len(em'.entity_versions_) = Len(em'.component_masks_)
     /\ Len(em'.entity_versions_) >= Len(em.entity_versions_)]_vars

\* The types that have an index.
Registered(s) == {t \in Types : s.index[t] # NotInitialized}

\* C20: the first reference to a type returns the number of types referred
\* to before it (0, 1, 2, ... in the order of first reference); a further
\* reference returns the same index and takes no new one; the first
\* references to ECS_MAX_NUM_OF_COMPONENTS types succeed and the first
\* reference to one more type fails the assertion 'maximum number of
\* components exceeded' and gives the type no index.
C20_RegistryDenseIdempotentBounded ==
  [][last'.op \in {"component_index", "component_index_assert"} =>
       LET t == last'.type
           before == Registered(statics)
       IN IF t \in before
          THEN /\ last'.op = "component_index"
               /\ last'.n = statics.index[t]
               /\ statics' = statics
          ELSE IF Cardinality(before) < ECS_MAX_NUM_OF_COMPONENTS
          THEN /\ last'.op = "component_index"
               /\ last'.n = Cardinality(before)
               /\ statics'.index = [statics.index EXCEPT ![t] = Cardinality(before)]
          ELSE /\ last'.op = "component_index_assert"
               /\ statics'.index = statics.index]_vars

\* ECS_MAX_NUM_OF_COMPONENTS types are registered in an order that is not
\* the order of their names, and the reference to one more type failed.
C20_Witness ==
  /\ last.op = "component_index_assert"
  /\ last.type \notin Registered(statics)
  /\ Cardinality(Registered(statics)) = ECS_MAX_NUM_OF_COMPONENTS
  /\ {statics.index[t] : t \in Registered(statics)} =
       0 .. (ECS_MAX_NUM_OF_COMPONENTS - 1)
  /\ \E t \in Registered(statics) : statics.index[t] # t

\* The loop over a view is left in the step.
WalkLeft == walk.active /\ ~ walk'.active

\* C21: a loop over the view of mask M whose body destroys only the entity
\* it is handed is left after finitely many turns and by no failed
\* assertion; every entity that matched M when the loop began was handed
\* to the body exactly once; afterwards every entity the body destroyed is
\* invalid and count() is smaller than at the begin by their number.
C21_WalkDestroyingCurrent ==
  /\ [][WalkLeft =>
          /\ last'.op = "walk"
          /\ \A s \in walk.began : CountIn(walk.yielded, s) = 1
          /\ \A i \in 1 .. Len(walk.destroyed) : ~ is_valid(em', walk.destroyed[i])
          /\ walk.count_begin >= Len(walk.destroyed)
          /\ em'.count_ = walk.count_begin - Len(walk.destroyed)]_vars
  /\ (walk.active ~> ~ walk.active)

\* C22: update(t) returns after it has called update(t) once on every system
\* that was added and not removed since, in the order of the adds, and on
\* no other system.
C22_UpdateCallsRegisteredInOrder ==
  [][last'.op = "system_update" =>
       /\ ~ fault'
       /\ last'.yielded = systems.registered]_vars

\* C23: remove<S>() of a system that exists returns; afterwards exists<S>()
\* is false, and the other systems exist as before and are updated in the
\* order they had, whether S was the first, a middle or the last system of
\* the update order.
C23_RemoveKeepsOthers ==
  [][last'.op = "system_remove" =>
       LET S == last'.type
       IN /\ ~ fault'
          /\ ~ exists(systems', S)
          /\ \A T \in SystemTypes \ {S} :
               systems.index[T] # NotInitialized =>
                 (exists(systems', T) <=> exists(systems, T))
          /\ SystemManager_update(systems', FALSE).called =
               SelectSeq(SystemManager_update(systems, FALSE).called,
                         LAMBDA T : T # S)]_vars


\* C24: the call that allocates an UnallocatedEntity raises count() by one,
\* gives the entity exactly the mask the UnallocatedEntity has at that moment
\* and places it in a block tagged with that mask, at the slot create_with of
\* the same components would return; a later conversion, id() or as<T>()
\* allocates nothing more.
C24_AllocatedOnceInBlockOfMask ==
  [][(last'.op = "allocate") =>
       IF last'.n = 1
       THEN LET index == unallocated'.entity_.index
            IN /\ unallocated.manager_ /\ ~ unallocated'.manager_
               /\ em'.count_ = em.count_ + 1
               /\ is_valid(em', unallocated'.entity_)
               /\ mask(em', index) = unallocated.mask_
               /\ BlockMask(em', index) = unallocated.mask_
               /\ index = create_with(em, unallocated.mask_).entity.index
       ELSE /\ ~ unallocated.manager_
            /\ UNCHANGED <<em, gh, unallocated>>]_vars

\* An UnallocatedEntity with components was allocated into the block that
\* already holds an entity made by create_with of the same components.
C24_Witness ==
  /\ last.op = "allocate" /\ last.n = 1
  /\ last.mask_ # {}
  /\ Len(gh.made[last.mask_]) = 2
  /\ gh.made[last.mask_][2] = unallocated.entity_.index
  /\ BlockOf(gh.made[last.mask_][1]) = BlockOf(gh.made[last.mask_][2])
  /\ mask(em, gh.made[last.mask_][1]) = last.mask_

\* The cell of the latest add<C>() on the UnallocatedEntity u.
LatestCell(u, c) ==
  LET at == {i \in 1 .. Len(u.component_headers_) : u.component_headers_[i] = c}
  IN u.component_data[CHOOSE i \in at : \A j \in at : j <= i]

PoolAsserts ==
  {"remove_pool_assert", "remove_everything_pool_assert", "destroy_pool_assert"}

\* C25: the entity an UnallocatedEntity is allocated to has exactly the
\* components added and not removed before, each with one object that holds
\* the value it was added with, and remove, remove_everything and destroy on
\* it pass the assertions they pass on an entity made by create_with: no such
\* call ends in the assertion of Pool<T>::destroy.
C25_AllocatedLikeCreatedWith ==
  [][/\ (last'.op = "allocate" /\ last'.n = 1) =>
          LET id == unallocated'.entity_
          IN /\ mask(em', id.index) = unallocated.mask_
             /\ \A c \in unallocated.mask_ :
                  /\ em'.component_managers_[c].obj[id.index] = 1
                  /\ get_component(em', id, c) = LatestCell(unallocated, c).val
                  /\ remove_component_asserts(em', id, c)
                  /\ Pool_destroy_asserts(em', c, id.index)
             /\ remove_all_components_asserts(em', id)
     /\ last'.op \notin PoolAsserts]_vars

\* C26: remove_everything() on an UnallocatedEntity that is not allocated
\* leaves it without components, and every object an add<C>() constructed in
\* it that was still alive has been destructed by the call.
C26_RemoveEverythingDestructs ==
  [][(last'.op = "unallocated_remove_everything") =>
       /\ unallocated'.mask_ = {}
       /\ \A i \in 1 .. Len(unallocated.component_data) :
            /\ i <= Len(unallocated'.component_data)
            /\ unallocated'.component_data[i].obj = 0]_vars

\* The masks for which a create returned slot s.
Origins(g, s) == {m \in ComponentMask : s \in Range(g.made[m])}

FreeList(w, m) == w.component_mask_to_index_accessor_[m].free_list

\* C27: destroy pushes the slot on the free list of the mask recorded for its
\* block, which is the mask the slot was first handed out for, whatever mask
\* the entity has by then, and changes no other free list; a create reuses a
\* destroyed slot only for that same mask, so a slot from create() whose
\* entity gained components goes to the next create() and never to
\* create_with of those components.
C27_DestroyPushesOnBlockMask ==
  [][/\ (last'.op = "destroy") =>
          \A s \in Slots : DestroyedNow(s) = 1 =>
            /\ Origins(gh, s) = {BlockMask(em, s)}
            /\ \A m \in ComponentMask :
                 FreeList(em', m) = IF m = BlockMask(em, s)
                                    THEN Append(FreeList(em, m), s)
                                    ELSE FreeList(em, m)
     /\ (last'.op \in {"create", "create_with"}) =>
          LET s == last'.ret[1].index
          IN /\ Origins(gh', s) = {last'.mask_}
             /\ FreeList(em, last'.mask_) # <<>> =>
                  s = Last(FreeList(em, last'.mask_))]_vars

\* A slot handed out by create() whose entity had gained a component when it
\* was destroyed is the slot the next create() returned, while the entities
\* made by create_with of that component hold other slots.
C27_Witness ==
  /\ last.op = "create"
  /\ LET s == last.ret[1].index
     IN /\ gh.destroyed[s] = 1
        /\ gh.made[{}] = <<s, s>>
        /\ gh.made[{0}] # <<>>
        /\ em.component_managers_[0].size_ > s
        /\ \A t \in Range(gh.made[{0}]) : t > s /\ gh.destroyed[t] = 0

\* The slots of block b no create has returned so far.
Unused(g, b) ==
  {t \in Slots : BlockOf(t) = b /\ \A m \in ComponentMask : t \notin Range(g.made[m])}

\* C28: a destroy leaves its slot last on the free list, and a single create
\* for mask M returns the last slot of M's free list and pops it whenever the
\* list is not empty; with an empty list it returns the lowest slot of M's
\* latest block that no create has returned yet; only when M has no block or
\* every slot of its latest block has been returned does it open a new block
\* for M and return its first slot.
C28_AllocationOrder ==
  [][/\ (last'.op = "destroy") =>
          \A s \in Slots : DestroyedNow(s) = 1 =>
            Last(FreeList(em', BlockMask(em, s))) = s
     /\ (last'.op \in {"create", "create_with"}) =>
          LET m == last'.mask_
              s == last'.ret[1].index
              blocks == em.component_mask_to_index_accessor_[m].block_index
              unused == IF blocks = <<>> THEN {} ELSE Unused(gh, Last(blocks))
          IN IF FreeList(em, m) # <<>>
             THEN /\ s = Last(FreeList(em, m))
                  /\ FreeList(em', m) = PopBack(FreeList(em, m))
                  /\ em'.block_count_ = em.block_count_
             ELSE IF unused # {}
             THEN /\ s \in unused /\ \A t \in unused : s <= t
                  /\ em'.block_count_ = em.block_count_
             ELSE /\ em'.block_count_ = em.block_count_ + 1
                  /\ s = ECS_CACHE_LINE_SIZE * em.block_count_
                  /\ BlockMask(em', s) = m]_vars

\* All free lists, one after the other.
RECURSIVE Concat(_, _)
Concat(w, masks) ==
  IF masks = {} THEN <<>>
  ELSE LET m == CHOOSE x \in masks : TRUE
       IN FreeList(w, m) \o Concat(w, masks \ {m})

\* C29: a slot is at most once on all free lists together, and a slot on a
\* free list is occupied by no live entity and has the empty mask.
C29_FreeListsDisjointFromLive ==
  LET all == Concat(em, ComponentMask)
  IN \A s \in Slots :
       /\ CountIn(all, s) <= 1
       /\ CountIn(all, s) = 1 =>
            /\ gh.occupants[s] = 0
            /\ s < Len(em.component_masks_) => mask(em, s) = {}

\* C30: clear_mask(e) empties the mask of e and changes nothing else: the
\* component stores with their objects and values, the generations, count(),
\* the blocks and free lists and the masks of all other entities stay as they
\* are; a later remove_everything or destroy runs the destructor only of
\* components in the entity's mask, so none for the components cleared.
C30_ClearMaskOnlyResetsMask ==
  [][/\ (last'.op = "clear_mask") =>
          /\ \E h \in gh.handles : LET s == h.id.index IN
               /\ is_valid(em, h.id)
               /\ em'.component_masks_ = [em.component_masks_ EXCEPT ![s + 1] = {}]
          /\ em'.component_managers_ = em.component_managers_
          /\ em'.entity_versions_ = em.entity_versions_
          /\ em'.count_ = em.count_
          /\ em'.component_mask_to_index_accessor_ = em.component_mask_to_index_accessor_
          /\ em'.next_free_indexes_ = em.next_free_indexes_
          /\ em'.index_to_component_mask = em.index_to_component_mask
          /\ em'.block_count_ = em.block_count_
          /\ gh' = gh
     /\ (last'.op \in {"remove_everything", "destroy"}) =>
          \A c \in Components, s \in Slots :
            (s < Len(em.component_masks_) /\ c \notin mask(em, s)) =>
               em'.component_managers_[c].obj[s] = em.component_managers_[c].obj[s]]_vars

\* An entity whose mask was cleared while it had a component was destroyed:
\* its slot is free and the object of the component is still in the store.
C30_Witness ==
  /\ last.op = "destroy"
  /\ \E s \in Slots, c \in Components :
       /\ gh.occupants[s] = 0 /\ gh.destroyed[s] = 1
       /\ FreeList(em, {}) = <<s>>
       /\ em.component_managers_[c].obj[s] = 1
       /\ em.component_managers_[c].val[s] # DefaultValue

\* The destroys of the slot of handle h since a create returned h.
DestroyedSince(h) == gh.destroyed[h.id.index] - h.born

\* C31: with the 8-bit version, a handle whose slot was destroyed since the
\* handle was issued is invalid while the number of those destroys is not a
\* multiple of 256, and is valid again when it is one: it then equals the
\* handle of whatever the slot holds.
C31_StaleUntil256Destroys ==
  \A h \in gh.handles :
    DestroyedSince(h) > 0 =>
      IF DestroyedSince(h) % VersionModulus = 0
      THEN is_valid(em, h.id) /\ h.id = get_entity(em, h.id.index)
      ELSE ~ is_valid(em, h.id)

\* The first handle of a slot is valid again after 256 destroys of the slot
\* and names the entity created there afterwards.
C31_Witness ==
  \E h, k \in gh.handles :
    /\ h.id = k.id
    /\ h.born = 0 /\ k.born = VersionModulus
    /\ gh.occupants[h.id.index] = 1
    /\ is_valid(em, h.id)

\* C32: a walk makes at most L turns, L the length of the table when begin()
\* and end() were made: the cursor never passes L, every turn moves it on, a
\* walk over a mask no entity satisfied yields nothing, and whatever the body
\* creates during the walk, ++it reads no mask outside the table.
C32_WalkBoundedByTableLength ==
  /\ ~ fault
  /\ walk.active =>
       /\ walk.end.cursor_ = walk.it.size_
       /\ walk.it.cursor_ <= walk.it.size_
       /\ Len(walk.yielded) <= walk.it.cursor_
       /\ (walk.began = {} /\ walk.it.mask_ # {}) => walk.yielded = <<>>

\* C33: entities[id] returns a handle exactly when id is valid; for the Id of
\* a destroyed entity, whose version is not the slot's any more, the call
\* fails its assertion and returns nothing.
C33_SubscriptOnlyValidIds ==
  [][(last'.op \in {"subscript", "subscript_assert"}) =>
       /\ is_valid(em, last'.ret[1]) <=> last'.op = "subscript"
       /\ last'.op = "subscript" => last'.ret[1] = get_entity(em, last'.ret[1].index)
       /\ em' = em]_vars

\* C34: the copy of an iterator equals the original: same cursor, same mask
\* and same size, so that the copy goes on over the same remaining slots.
C34_CopyEqualsOriginal ==
  [][(last'.op = "iterator_copy") =>
       /\ walk'.it.cursor_ = walk.it.cursor_
       /\ walk'.it.mask_ = walk.it.mask_
       /\ walk'.it.size_ = walk.it.size_
       /\ for_each(em, walk'.it, walk.end, <<>>) = for_each(em, walk.it, walk.end, <<>>)]_vars

\* C35: add<S>() unregisters no other system: every system that exists
\* before the call exists after it and is called by the next update().
C35_AddKeepsOtherSystems ==
  [][(last'.op = "system_add") =>
       \A S \in SystemTypes :
         (systems.index[S] # NotInitialized /\ exists(systems, S)) =>
           /\ exists(systems', S)
           /\ \A stale \in BOOLEAN :
                S \in Range(SystemManager_update(systems', stale).called)]_vars

\* C36: in every block the offsets handed out lie below the block's
\* next_free_indexes_ entry, which stays between 0 and the block size, and no
\* slot comes from the bump allocation twice: a slot that was never destroyed
\* has one occupant at most.
C36_HandedOutBelowNextFree ==
  /\ \A b \in 1 .. Len(em.next_free_indexes_) :
       em.next_free_indexes_[b] >= 0 /\ em.next_free_indexes_[b] <= ECS_CACHE_LINE_SIZE
  /\ \A h \in gh.handles :
       /\ h.id.index \div ECS_CACHE_LINE_SIZE < Len(em.next_free_indexes_)
       /\ h.id.index % ECS_CACHE_LINE_SIZE <
            em.next_free_indexes_[(h.id.index \div ECS_CACHE_LINE_SIZE) + 1]
  /\ \A s \in Slots : gh.destroyed[s] = 0 => gh.occupants[s] <= 1

\* The pool of component c in the manager w.
PoolOf(w, c) == w.component_managers_[c]

\* C37: growth moves no storage: over every step the capacity and the chunk
\* list of a pool do not shrink, the chunks it had stay where they were in
\* the list, and every index below the old capacity keeps its chunk and
\* offset.
C37_GrowthKeepsPointers ==
  [][\A c \in Components :
       /\ PoolOf(em', c).capacity_ >= PoolOf(em, c).capacity_
       /\ Len(PoolOf(em', c).chunks_) >= Len(PoolOf(em, c).chunks_)
       /\ \A k \in 1 .. Len(PoolOf(em, c).chunks_) :
            PoolOf(em', c).chunks_[k] = PoolOf(em, c).chunks_[k]
       /\ \A i \in 0 .. (PoolOf(em, c).capacity_ - 1) :
            get_ptr(PoolOf(em', c), i) = get_ptr(PoolOf(em, c), i)]_vars

\* A call has grown a pool that had storage, with an object in it, before.
C37_Witness ==
  /\ last.op \in {"ensure_min_size", "ensure_min_capacity"}
  /\ last.count_before > 0
  /\ PoolOf(em, last.type).capacity_ > last.count_before
  /\ \E i \in 0 .. (last.count_before - 1) : PoolOf(em, last.type).obj[i] > 0

\* C38: ensure_min_capacity(n) appends chunks until the capacity is n or
\* more and no longer: it leaves a pool whose capacity is n or more as it
\* is, a pool it has grown would be too small with one chunk less, and a
\* second call with the same n changes nothing.
C38_CapacityJustEnough ==
  [][(last'.op = "ensure_min_capacity") =>
       LET c == last'.type
           n == last'.n
       IN /\ PoolOf(em, c).capacity_ >= n =>
               PoolOf(em', c).chunks_ = PoolOf(em, c).chunks_
          /\ PoolOf(em', c).capacity_ >= n
          /\ PoolOf(em', c).capacity_ > PoolOf(em, c).capacity_ =>
               PoolOf(em', c).capacity_ - ECS_DEFAULT_CHUNK_SIZE < n
          /\ ensure_min_capacity(PoolOf(em', c), n) = PoolOf(em', c)]_vars
=============================================================================
